---------------------------- MODULE Spec2Model ----------------------------
(***************************************************************************)
(* Election-scoring engine of the voting-method visualisation:             *)
(*   src/app/components/votingMethods.ts   (votingMethods.*, findSmithSet)  *)
(*   src/app/components/ElectionUtils.ts   (runElection, simulateElection)  *)
(*   src/app/components/VotingMethodViz.tsx (population IRV, two variants)  *)
(*   src/app/comparison/page.tsx            (population IRV, third variant) *)
(* and the candidate editors and the map painting of VotingMethodViz.tsx   *)
(* and VotingMethodComparisonGrid.tsx (add, remove, rename, drag, presets). *)
(*                                                                         *)
(* Numbers.  Coordinates are integers counted in units of 0.075, so that   *)
(* VOTER_RADIUS = 0.15 is 2 units and DEFAULT_APPROVAL_THRESHOLD = 0.3 is  *)
(* 4 units.  A distance is carried as its square, an exact integer: the    *)
(* source uses a distance only in comparisons (sort comparator, <=, >=)    *)
(* and in the ratio dist / radius of getWeight, and Math.sqrt is strictly  *)
(* increasing on these values.  A weight is carried in thousandths.        *)
(* Candidate ids are the integer-like strings the application generates    *)
(* ('1', '2', ...), carried as integers: Object.entries of a plain object  *)
(* visits such keys in ascending numeric order, a Map or Set visits its    *)
(* keys in insertion order.                                                *)
(***************************************************************************)
EXTENDS Integers, Sequences, FiniteSets, TLC

\* ---------------------------------------------------------------- bounds
\* single-voter calls: the grid of positions, the list length, the thresholds
MaxX == 3
MaxY == 0
MaxCands == 2
MaxThreshold == 1
\* population IRV: candidates and voters on a line, the number of each, and
\* the number of loop iterations followed
MaxLine == 2
MaxIrvCands == 3
MaxVoters == 2
MaxRounds == 4
\* getWeight on its own: the largest radius, in units
MaxRadius == 8
\* candidate editors: the largest id an editing session and a palette
\* session create, and how far outside the canvas the pointer and the typed
\* coordinates go, in tenths
MaxUiId == 3
MaxPaletteId == 10
MaxOutside == 1

\* ------------------------------------------------------ program constants
VOTER_RADIUS == 2
DEFAULT_APPROVAL_THRESHOLD == 4
WeightOne == 1000

VARIABLES
    candidates,         \* the caller's candidate list: Seq([id, x, y])
    voterX, voterY,     \* the voter / sample point
    approvalThreshold,  \* params.approvalThreshold, in units
    op,                 \* the call in progress: <<module, function>>
    result,             \* what that call produced: Ret(v) or Throw(e)
    smithSet,           \* the Smith set findSmithSet built in that call
    impl,               \* the population IRV implementation that is running
    voters,             \* the population: Seq(<<x, y>>)
    allVotes,           \* one ballot (full ranking of ids) per voter
    remainingCandidates,\* ids not yet eliminated, in iteration order
    roundVotes,         \* the tally of the round just counted: id -> votes
    majorityWinner,     \* the id declared winner by that round, or NoId
    rounds,             \* iterations of the round loop executed so far
    votes,              \* the reported tally: id -> votes
    winnerId,           \* the reported winner, or NoId
    pc,                 \* "loop", "break" (left by break), "done"; "single";
                        \* a tally: "start", "count", "null", "thrown"
    tallyMethod,        \* the method a population tally is computed for
    counted,            \* voters whose vote the tally has added so far
    weightDist,         \* getWeight under test: its dist argument, squared
    weightRadius,       \* its radius argument, in units
    weight,             \* what it returned, in thousandths, or Undefined
    component,          \* the component whose candidate editor is in use
    isDragging          \* the id of the candidate being dragged, or NoId

pointVars == <<voterX, voterY, approvalThreshold, op, result, smithSet>>

irvVars == <<impl, voters, allVotes, remainingCandidates, roundVotes,
             majorityWinner, rounds, votes, winnerId, pc>>

tallyVars == <<tallyMethod, counted>>

weightVars == <<weightDist, weightRadius, weight>>

uiVars == <<component, isDragging>>

vars == <<candidates, pointVars, irvVars, tallyVars, weightVars, uiVars>>

\* --------------------------------------------------------- call outcomes
NoId == 0
\* an argument passed as undefined: every comparison with it is false
Undefined == -1
NoResult == [tag |-> "none"]
Ret(v) == [tag |-> "return", value |-> v]
Throw(e) == [tag |-> "throw", error |-> e]

\* ------------------------------------------------------ generic helpers
Sq(n) == n * n

Isqrt(n) == CHOOSE k \in 0..100 : k * k <= n /\ (k + 1) * (k + 1) > n

Range(s) == {s[i] : i \in 1..Len(s)}

\* The four callbacks the source passes to reduce over <<id, value>> pairs,
\* named by what they keep when the values are equal.
FirstMax == "b[1] > a[1] ? b : a"
LastMax == "a[1] > b[1] ? a : b"
FirstMin == "b[1] < a[1] ? b : a"
LastMin == "a[1] < b[1] ? a : b"

Pick(callback, a, b) ==
    CASE callback = FirstMax -> IF b[2] > a[2] THEN b ELSE a
      [] callback = LastMax -> IF a[2] > b[2] THEN a ELSE b
      [] callback = FirstMin -> IF b[2] < a[2] THEN b ELSE a
      [] callback = LastMin -> IF a[2] < b[2] THEN a ELSE b

\* Array.prototype.reduce without an initial value (the array is non-empty):
\* the accumulator starts as the first element and the callback is applied
\* left to right.
Reduce(s, callback) ==
    LET acc[i \in 1..Len(s)] ==
            IF i = 1 THEN s[1] ELSE Pick(callback, acc[i - 1], s[i])
    IN acc[Len(s)]

\* Array.prototype.sort with a comparator key(a) - key(b): ascending and
\* stable (ECMAScript 2019).  key[i] is the key of s[i]; the element at
\* result position r is the one with r - 1 elements before it, an element
\* being before another when its key is smaller, or equal and it came first.
\* (The array and its keys are bound once, as values, by the set binding.)
StableSort(s, key) ==
    LET Sorted(arr, k) ==
            LET n == Len(arr)
                Before(j, i) == k[j] < k[i] \/ (k[j] = k[i] /\ j < i)
            IN [r \in 1..n |->
                  arr[CHOOSE i \in 1..n :
                        Cardinality({j \in 1..n : Before(j, i)}) = r - 1]]
    IN CHOOSE sorted \in {Sorted(arg[1], arg[2]) : arg \in {<<s, key>>}} : TRUE

\* Object.entries of a Record<string, number> with integer-like keys:
\* <<key, value>> pairs in ascending numeric key order.
RECURSIVE ObjectEntries(_)
ObjectEntries(rec) ==
    LET From(r) ==
            IF DOMAIN r = {} THEN <<>>
            ELSE LET k == CHOOSE m \in DOMAIN r : \A o \in DOMAIN r : m <= o
                 IN <<(<<k, r[k]>>)>> \o
                    ObjectEntries([o \in (DOMAIN r) \ {k} |-> r[o]])
    IN CHOOSE entries \in {From(r) : r \in {rec}} : TRUE

\* ------------------------------------------------------------- geometry
\* distance, as its square
distance(x1, y1, x2, y2) == Sq(x2 - x1) + Sq(y2 - y1)

\* 1000 * cos(pi * t / 100) for 0 <= t <= 100 (Bhaskara's rational form,
\* mirrored about t = 50)
CosMilli(t) ==
    IF t <= 50
    THEN (1000 * (10000 - 4 * t * t)) \div (10000 + t * t)
    ELSE LET u == 100 - t
         IN 0 - ((1000 * (10000 - 4 * u * u)) \div (10000 + u * u))

\* getWeight(dist, radius): dist is given as its square, radius in units;
\* dist / radius is taken in hundredths
getWeight(dist, radius) ==
    IF dist >= Sq(radius) THEN 0
    ELSE (WeightOne + CosMilli(Isqrt((10000 * dist) \div Sq(radius)))) \div 2

\* -------------------------------------------------- preference ranking
\* candidates.map(candidate => ({id, dist}))
WithDist(vx, vy, cands) ==
    [i \in 1..Len(cands) |->
       [id |-> cands[i].id,
        dist |-> distance(vx, vy, cands[i].x, cands[i].y)]]

DistKeys(s) == [i \in 1..Len(s) |-> s[i].dist]

\* variant: equal distances come out in reverse input order
getVoterPreference_TiesReversed(vx, vy, cands) ==
    LET mapped == WithDist(vx, vy, cands)
        n == Len(mapped)
        reversed == [i \in 1..n |-> mapped[n + 1 - i]]
    IN StableSort(reversed, DistKeys(reversed))

getVoterPreference(vx, vy, cands) ==
    LET mapped == WithDist(vx, vy, cands)
    IN StableSort(mapped, DistKeys(mapped))

Ids(s) == [i \in 1..Len(s) |-> s[i].id]

\* variant: the sort orders the candidate array itself
CandidatesAfter_SortInPlace(vx, vy, cands) ==
    StableSort(cands, DistKeys(WithDist(vx, vy, cands)))

\* the caller's candidate array after an engine call with this voter.  The
\* engine applies map, filter, forEach and length to it, none of which
\* changes its receiver; sort, which orders its receiver in place, is only
\* applied to the array map has just returned.
CandidatesAfter(vx, vy, cands) == cands

\* ------------------------------------------------- pairwise / Smith set
\* variant: the pairs are pushed as <<farther, closer>>
getPairwisePreferences_Swapped(vx, vy, cands) ==
    LET Pairs(prefs) ==
            LET row[i \in 0..Len(prefs)] ==
                    IF i = 0 THEN <<>>
                    ELSE row[i - 1] \o
                         [k \in 1..(Len(prefs) - i) |->
                            <<prefs[i + k].id, prefs[i].id>>]
            IN row[Len(prefs)]
    IN CHOOSE pairs \in
           {Pairs(prefs) : prefs \in {getVoterPreference(vx, vy, cands)}} : TRUE

\* getPairwisePreferences: every pair <<closer, farther>> of the ranking
getPairwisePreferences(vx, vy, cands) ==
    LET Pairs(prefs) ==
            LET row[i \in 0..Len(prefs)] ==
                    IF i = 0 THEN <<>>
                    ELSE row[i - 1] \o
                         [k \in 1..(Len(prefs) - i) |->
                            <<prefs[i].id, prefs[i + k].id>>]
            IN row[Len(prefs)]
    IN CHOOSE pairs \in
           {Pairs(prefs) : prefs \in {getVoterPreference(vx, vy, cands)}} : TRUE

\* new Set(array): the distinct elements in first-insertion order
SetOf(s) ==
    LET keep[i \in 0..Len(s)] ==
            IF i = 0 THEN <<>>
            ELSE IF s[i] \in Range(keep[i - 1]) THEN keep[i - 1]
                 ELSE Append(keep[i - 1], s[i])
    IN keep[Len(s)]

\* the defeats map of findSmithSet: candidate id -> set of ids it defeats
Defeats(vx, vy, cands) ==
    LET Build(pairs) ==
            [c \in Range(Ids(cands)) |->
               {pairs[i][2] : i \in {j \in 1..Len(pairs) : pairs[j][1] = c}}]
    IN CHOOSE defeats \in
           {Build(pairs) : pairs \in {getPairwisePreferences(vx, vy, cands)}} :
           TRUE

\* one pass of the while loop of findSmithSet: the first candidate (in Set
\* iteration order) that some other member beats without being beaten back is
\* deleted and the scan restarts; the loop ends when a pass deletes nothing.
RECURSIVE SmithLoop(_, _)
SmithLoop(smithSet0, defeats0) ==
    LET Pass(set, defeats) ==
            LET beaten == {i \in 1..Len(set) :
                             \E j \in 1..Len(set) :
                                /\ set[i] # set[j]
                                /\ set[j] \notin defeats[set[i]]
                                /\ set[i] \in defeats[set[j]]}
            IN IF beaten = {} THEN set
               ELSE LET i == CHOOSE m \in beaten : \A o \in beaten : m <= o
                    IN SmithLoop(SubSeq(set, 1, i - 1) \o
                                 SubSeq(set, i + 1, Len(set)), defeats)
    IN CHOOSE kept \in {Pass(arg[1], arg[2]) :
                          arg \in {<<smithSet0, defeats0>>}} : TRUE

\* variant: no candidate is deleted from the initial set
findSmithSet_AllKept(vx, vy, cands) == SetOf(Ids(cands))

findSmithSet(vx, vy, cands) ==
    SmithLoop(SetOf(Ids(cands)), Defeats(vx, vy, cands))

\* ------------------------------------------------------- votingMethods.*
\* prefs[0].id on an empty array reads a property of undefined: TypeError
plurality(vx, vy, cands) ==
    LET prefs == getVoterPreference(vx, vy, cands)
    IN IF prefs = <<>> THEN Throw("TypeError") ELSE Ret(<<prefs[1].id>>)

\* variant: p.dist < approvalThreshold
approval_Strict(vx, vy, cands, threshold) ==
    LET prefs == getVoterPreference(vx, vy, cands)
        Within(p) == threshold # Undefined /\ p.dist < Sq(threshold)
        approvedCandidates == SelectSeq(prefs, Within)
    IN IF Len(approvedCandidates) > 0 THEN Ret(Ids(approvedCandidates))
       ELSE IF prefs = <<>> THEN Throw("TypeError")
       ELSE Ret(<<prefs[1].id>>)

\* variant: the candidates at the threshold or beyond it are approved
approval_Beyond(vx, vy, cands, threshold) ==
    LET prefs == getVoterPreference(vx, vy, cands)
        Within(p) == threshold # Undefined /\ p.dist >= Sq(threshold)
        approvedCandidates == SelectSeq(prefs, Within)
    IN IF Len(approvedCandidates) > 0 THEN Ret(Ids(approvedCandidates))
       ELSE IF prefs = <<>> THEN Throw("TypeError")
       ELSE Ret(<<prefs[1].id>>)

\* variant: no fallback to the closest candidate
approval_NoFallback(vx, vy, cands, threshold) ==
    LET prefs == getVoterPreference(vx, vy, cands)
        Within(p) == threshold # Undefined /\ p.dist <= Sq(threshold)
    IN Ret(Ids(SelectSeq(prefs, Within)))

approval(vx, vy, cands, threshold) ==
    LET prefs == getVoterPreference(vx, vy, cands)
        Within(p) == threshold # Undefined /\ p.dist <= Sq(threshold)
        approvedCandidates == SelectSeq(prefs, Within)
    IN IF Len(approvedCandidates) > 0 THEN Ret(Ids(approvedCandidates))
       ELSE IF prefs = <<>> THEN Throw("TypeError")
       ELSE Ret(<<prefs[1].id>>)

\* variant: the entries are sorted by points, ascending
borda_Ascending(vx, vy, cands) ==
    LET Entries(prefs) ==
            LET keys == SetOf(Ids(prefs))
                pointsOf(id) ==
                    LET i == CHOOSE m \in 1..Len(prefs) :
                                /\ prefs[m].id = id
                                /\ \A o \in 1..Len(prefs) :
                                      prefs[o].id = id => o <= m
                    IN Len(cands) - 1 - (i - 1)
            IN [k \in 1..Len(keys) |-> <<keys[k], pointsOf(keys[k])>>]
        Sorted(entries) ==
            StableSort(entries, [k \in 1..Len(entries) |-> entries[k][2]])
        IdsOf(sorted) == Ret([k \in 1..Len(sorted) |-> sorted[k][1]])
    IN CHOOSE ballot \in
           {IdsOf(sorted) :
              sorted \in {Sorted(entries) :
                 entries \in {Entries(prefs) :
                    prefs \in {getVoterPreference(vx, vy, cands)}}}} : TRUE

\* points is a Map keyed by id; its entries are sorted by points, descending
\* (each intermediate array is bound once, as a value, by a set binding)
borda(vx, vy, cands) ==
    LET Entries(prefs) ==
            LET keys == SetOf(Ids(prefs))
                pointsOf(id) ==
                    LET i == CHOOSE m \in 1..Len(prefs) :
                                /\ prefs[m].id = id
                                /\ \A o \in 1..Len(prefs) :
                                      prefs[o].id = id => o <= m
                    IN Len(cands) - 1 - (i - 1)
            IN [k \in 1..Len(keys) |-> <<keys[k], pointsOf(keys[k])>>]
        Sorted(entries) ==
            StableSort(entries, [k \in 1..Len(entries) |-> 0 - entries[k][2]])
        IdsOf(sorted) == Ret([k \in 1..Len(sorted) |-> sorted[k][1]])
    IN CHOOSE ballot \in
           {IdsOf(sorted) :
              sorted \in {Sorted(entries) :
                 entries \in {Entries(prefs) :
                    prefs \in {getVoterPreference(vx, vy, cands)}}}} : TRUE

irv(vx, vy, cands) == Ret(Ids(getVoterPreference(vx, vy, cands)))

\* variant: a candidate as near as another one is dropped from the Smith
\* candidates
smithApproval_TiesDropped(vx, vy, cands, threshold) ==
    LET Filtered(smith) ==
            LET D(c) == distance(vx, vy, c.x, c.y)
                InSmith(c) ==
                    /\ c.id \in Range(smith)
                    /\ \A o \in Range(cands) : o.id # c.id => D(o) # D(c)
            IN SelectSeq(cands, InSmith)
    IN CHOOSE vote \in
           {approval(vx, vy, smithCandidates, threshold) :
              smithCandidates \in {Filtered(smith) :
                 smith \in {findSmithSet(vx, vy, cands)}}} : TRUE

smithApproval(vx, vy, cands, threshold) ==
    LET Filtered(smith) ==
            LET InSmith(c) == c.id \in Range(smith)
            IN SelectSeq(cands, InSmith)
    IN CHOOSE vote \in
           {approval(vx, vy, smithCandidates, threshold) :
              smithCandidates \in {Filtered(smith) :
                 smith \in {findSmithSet(vx, vy, cands)}}} : TRUE

\* ------------------------------------------- ElectionUtils.runElection
RunMethods == {"plurality", "approval", "irv"}

RECURSIVE runElection(_, _, _, _, _)
runElection(method, vx, vy, cands, threshold) ==
    IF Len(cands) = 0 THEN Throw("No candidates provided")
    ELSE IF Len(cands) = 1 THEN Ret(cands[1].id)
    ELSE CASE method = "plurality" ->
                LET weights == [i \in 1..Len(cands) |->
                        <<cands[i].id,
                          getWeight(distance(vx, vy, cands[i].x, cands[i].y),
                                    VOTER_RADIUS)>>]
                IN Ret(Reduce(weights, LastMax)[1])
           [] method = "approval" ->
                LET voteOf == [id \in Range(Ids(cands)) |->
                        LET i == CHOOSE m \in 1..Len(cands) :
                                    /\ cands[m].id = id
                                    /\ \A o \in 1..Len(cands) :
                                          cands[o].id = id => o <= m
                            dist == distance(vx, vy, cands[i].x, cands[i].y)
                        IN IF dist <= Sq(threshold)
                           THEN getWeight(dist, threshold) ELSE 0]
                    Positive(e) == e[2] > 0
                    Elected(approvedCandidates) ==
                        IF Len(approvedCandidates) = 0
                        THEN runElection("plurality", vx, vy, cands,
                                         DEFAULT_APPROVAL_THRESHOLD)
                        ELSE Ret(Reduce(approvedCandidates, FirstMax)[1])
                IN CHOOSE r \in
                       {Elected(approvedCandidates) :
                          approvedCandidates \in
                             {SelectSeq(ObjectEntries(voteOf), Positive)}} : TRUE
           [] method = "irv" ->
                Ret(getVoterPreference(vx, vy, cands)[1].id)
           [] OTHER -> Throw("Unsupported voting method")

\* the keys of votingMethods.methods: the methods the selector offers
VizMethods == {"plurality", "approval", "borda", "irv", "smithApproval"}

\* ------------------------------------- VotingMethodViz.drawVisualization
\* the id whose colour paints the pixel of a voter position; on an empty list
\* prefs[0].id and the reduce of an empty array both raise a TypeError
\* variant: the Borda branch keeps the entry with the fewest points
drawVisualization_FewestPoints(selectedMethod, vx, vy, cands, threshold) ==
    LET prefs == getVoterPreference(vx, vy, cands)
        Within(p) == p.dist <= Sq(threshold)
        approvedCandidates == SelectSeq(prefs, Within)
        keys == SetOf(Ids(prefs))
        pointsOf(id) ==
            LET i == CHOOSE m \in 1..Len(prefs) :
                        /\ prefs[m].id = id
                        /\ \A o \in 1..Len(prefs) : prefs[o].id = id => o <= m
            IN Len(cands) - 1 - (i - 1)
        points == [k \in 1..Len(keys) |-> <<keys[k], pointsOf(keys[k])>>]
    IN IF prefs = <<>> THEN Throw("TypeError")
       ELSE CASE selectedMethod = "approval" ->
                   IF Len(approvedCandidates) > 0
                   THEN Ret(approvedCandidates[1].id)
                   ELSE Ret(prefs[1].id)
              [] selectedMethod = "borda" -> Ret(Reduce(points, LastMin)[1])
              [] OTHER -> Ret(prefs[1].id)

drawVisualization(selectedMethod, vx, vy, cands, threshold) ==
    LET prefs == getVoterPreference(vx, vy, cands)
        Within(p) == p.dist <= Sq(threshold)
        approvedCandidates == SelectSeq(prefs, Within)
        keys == SetOf(Ids(prefs))
        pointsOf(id) ==
            LET i == CHOOSE m \in 1..Len(prefs) :
                        /\ prefs[m].id = id
                        /\ \A o \in 1..Len(prefs) : prefs[o].id = id => o <= m
            IN Len(cands) - 1 - (i - 1)
        points == [k \in 1..Len(keys) |-> <<keys[k], pointsOf(keys[k])>>]
    IN IF prefs = <<>> THEN Throw("TypeError")
       ELSE CASE selectedMethod = "approval" ->
                   IF Len(approvedCandidates) > 0
                   THEN Ret(approvedCandidates[1].id)
                   ELSE Ret(prefs[1].id)
              [] selectedMethod = "borda" -> Ret(Reduce(points, LastMax)[1])
              [] OTHER -> Ret(prefs[1].id)

\* ------------------------------------------------------------ the inputs
Positions == (0..MaxX) \X (0..MaxY)

\* ids of an n-element list: ascending, as addCandidate creates them, or
\* descending, so that list order and numeric id order differ
IdOrders(n) == {[i \in 1..n |-> i], [i \in 1..n |-> n + 1 - i]}

CandidateLists(positions, maxLen) ==
    UNION {{[i \in 1..n |-> [id |-> ids[i], x |-> pos[i][1], y |-> pos[i][2]]] :
              pos \in [1..n -> positions], ids \in IdOrders(n)} :
           n \in 0..maxLen}

\* the thresholds up to MaxThreshold, the voter radius and the default
Thresholds ==
    (1..MaxThreshold) \cup {VOTER_RADIUS, DEFAULT_APPROVAL_THRESHOLD}

\* ------------------------------------------ single-voter specification
\* The caller makes one call at a time on its candidate configuration and
\* discards the result before the next call.
Idle == <<"none", "none">>

Init ==
    /\ candidates \in CandidateLists(Positions, MaxCands)
    /\ voterX \in 0..MaxX
    /\ voterY \in 0..MaxY
    /\ approvalThreshold \in Thresholds
    /\ op = Idle
    /\ result = NoResult
    /\ smithSet = <<>>
    /\ impl = "none"
    /\ voters = <<>>
    /\ allVotes = <<>>
    /\ remainingCandidates = <<>>
    /\ roundVotes = <<>>
    /\ majorityWinner = NoId
    /\ rounds = 0
    /\ votes = <<>>
    /\ winnerId = NoId
    /\ pc = "single"
    /\ tallyMethod = "none"
    /\ counted = 0
    /\ weightDist = 0
    /\ weightRadius = 1
    /\ weight = Undefined
    /\ component = "none"
    /\ isDragging = NoId

Inputs == <<voterX, voterY, approvalThreshold, irvVars, tallyVars, weightVars,
            uiVars>>

CallGetVoterPreference ==
    /\ op = Idle
    /\ candidates' = CandidatesAfter(voterX, voterY, candidates)
    /\ op' = <<"votingMethods", "getVoterPreference">>
    /\ result' = Ret(getVoterPreference(voterX, voterY, candidates))
    /\ smithSet' = <<>>
    /\ UNCHANGED Inputs

CallPlurality ==
    /\ op = Idle
    /\ candidates' = CandidatesAfter(voterX, voterY, candidates)
    /\ op' = <<"votingMethods", "plurality">>
    /\ result' = plurality(voterX, voterY, candidates)
    /\ smithSet' = <<>>
    /\ UNCHANGED Inputs

CallApproval ==
    /\ op = Idle
    /\ candidates' = CandidatesAfter(voterX, voterY, candidates)
    /\ op' = <<"votingMethods", "approval">>
    /\ result' = approval(voterX, voterY, candidates, approvalThreshold)
    /\ smithSet' = <<>>
    /\ UNCHANGED Inputs

CallBorda ==
    /\ op = Idle
    /\ candidates' = CandidatesAfter(voterX, voterY, candidates)
    /\ op' = <<"votingMethods", "borda">>
    /\ result' = borda(voterX, voterY, candidates)
    /\ smithSet' = <<>>
    /\ UNCHANGED Inputs

CallIrv ==
    /\ op = Idle
    /\ candidates' = CandidatesAfter(voterX, voterY, candidates)
    /\ op' = <<"votingMethods", "irv">>
    /\ result' = irv(voterX, voterY, candidates)
    /\ smithSet' = <<>>
    /\ UNCHANGED Inputs

CallSmithApproval ==
    /\ op = Idle
    /\ candidates' = CandidatesAfter(voterX, voterY, candidates)
    /\ op' = <<"votingMethods", "smithApproval">>
    /\ result' = smithApproval(voterX, voterY, candidates, approvalThreshold)
    /\ smithSet' = findSmithSet(voterX, voterY, candidates)
    /\ UNCHANGED Inputs

CallRunElection ==
    \E method \in RunMethods :
        /\ op = Idle
        /\ op' = <<"runElection", method>>
        /\ result' = runElection(method, voterX, voterY, candidates,
                                 approvalThreshold)
        /\ smithSet' = <<>>
        /\ candidates' = CandidatesAfter(voterX, voterY, candidates)
        /\ UNCHANGED Inputs

CallDrawVisualization ==
    \E selectedMethod \in VizMethods :
        /\ op = Idle
        /\ op' = <<"drawVisualization", selectedMethod>>
        /\ result' = drawVisualization(selectedMethod, voterX, voterY,
                                       candidates, approvalThreshold)
        /\ smithSet' = <<>>
        /\ candidates' = CandidatesAfter(voterX, voterY, candidates)
        /\ UNCHANGED Inputs

Discard ==
    /\ op # Idle
    /\ op' = Idle
    /\ result' = NoResult
    /\ smithSet' = <<>>
    /\ UNCHANGED <<candidates, Inputs>>

Next ==
    \/ CallGetVoterPreference
    \/ CallPlurality
    \/ CallApproval
    \/ CallBorda
    \/ CallIrv
    \/ CallSmithApproval
    \/ CallRunElection
    \/ Discard

Spec == Init /\ [][Next]_vars

\* painting the voting map: one pixel at a time, the selector at any method
NextDraw == CallDrawVisualization \/ Discard

SpecDraw == Init /\ [][NextDraw]_vars

\* -------------------------------------------------- population IRV
\* Three implementations of the round loop:
\*   "calculateWinningAreas"  VotingMethodViz.tsx, Map tally over a Set
\*   "calculateActualVotes"   VotingMethodViz.tsx, Map tally over an array
\*   "comparisonRunElection"  comparison/page.tsx, Record tally over a Set
Impls == {"calculateWinningAreas", "calculateActualVotes",
          "comparisonRunElection"}

\* variant: a ballot counts only while its top choice remains
FirstChoice_TopOnly(prefs, remaining) ==
    IF prefs # <<>> /\ prefs[1] \in Range(remaining) THEN prefs[1] ELSE NoId

\* prefs.find(id => remainingCandidates.has(id)); undefined when none
FirstChoice(prefs, remaining) ==
    LET hits == {k \in 1..Len(prefs) : prefs[k] \in Range(remaining)}
    IN IF hits = {} THEN NoId
       ELSE prefs[CHOOSE k \in hits : \A o \in hits : k <= o]

\* the tally of one round over the given keys, every key starting at 0:
\* each ballot adds one vote to its first remaining choice, if it has one
RoundTally(keys, ballots, remaining) ==
    [id \in keys |->
       Cardinality({v \in 1..Len(ballots) :
                      FirstChoice(ballots[v], remaining) = id})]

\* [...map.entries()] of a Map whose keys were inserted in the order keySeq
MapEntries(keySeq, f) == [k \in 1..Len(keySeq) |-> <<keySeq[k], f[keySeq[k]]>>]

RECURSIVE SumValues(_)
SumValues(f) ==
    IF DOMAIN f = {} THEN 0
    ELSE LET k == CHOOSE m \in DOMAIN f : TRUE
         IN f[k] + SumValues([o \in (DOMAIN f) \ {k} |-> f[o]])

\* variant: count >= total / 2
HasMajority_AtLeastHalf(count, total) == 2 * count >= total

\* count > total / 2
HasMajority(count, total) == 2 * count > total

Remove(seq, id) ==
    LET Other(e) == e # id IN SelectSeq(seq, Other)

\* variant: no entry is created before a vote is counted
ZeroVotes_Lazy == [id \in {} |-> 0]

\* candidates.forEach(c => votes.set(c.id, 0))
ZeroVotes == [id \in Range(Ids(candidates)) |-> 0]

\* voters in one canonical order: a tally is a sum over the ballots, so the
\* order of the voters does not enter
PosLeq(p, q) == p[1] < q[1] \/ (p[1] = q[1] /\ p[2] <= q[2])

LinePositions == (0..MaxLine) \X {0}

\* the sample points of calculateWinningAreas: one ballot at every position
SamplePoints == [k \in 1..(MaxLine + 1) |-> <<k - 1, 0>>]

\* every electorate of up to MaxVoters voters, and the sample points
Populations ==
    {SamplePoints} \cup
    UNION {{vs \in [1..n -> LinePositions] :
              \A k \in 1..(n - 1) : PosLeq(vs[k], vs[k + 1])} :
           n \in 1..MaxVoters}

InitIrv ==
    /\ candidates \in CandidateLists(LinePositions, MaxIrvCands)
    /\ candidates # <<>>
    /\ impl \in Impls
    /\ voters \in Populations
    /\ allVotes = [v \in 1..Len(voters) |->
                     irv(voters[v][1], voters[v][2], candidates).value]
    /\ remainingCandidates = SetOf(Ids(candidates))
    /\ roundVotes = ZeroVotes
    /\ majorityWinner = NoId
    /\ rounds = 0
    /\ votes = ZeroVotes
    /\ winnerId = NoId
    /\ pc = "loop"
    /\ tallyMethod = "irv"
    /\ counted = 0
    /\ weightDist = 0
    /\ weightRadius = 1
    /\ weight = Undefined
    /\ component = "none"
    /\ isDragging = NoId
    /\ voterX = 0
    /\ voterY = 0
    /\ approvalThreshold = DEFAULT_APPROVAL_THRESHOLD
    /\ op = Idle
    /\ result = NoResult
    /\ smithSet = <<>>

\* one iteration of while (remainingCandidates.size > 1) { ... }
IrvRound ==
    /\ pc = "loop"
    /\ Len(remainingCandidates) > 1
    /\ rounds < MaxRounds
    /\ rounds' = rounds + 1
    /\ LET keys == IF impl = "comparisonRunElection"
                   THEN Range(Ids(candidates))
                   ELSE Range(remainingCandidates)
           tally == RoundTally(keys, allVotes, remainingCandidates)
           entries == IF impl = "comparisonRunElection"
                      THEN ObjectEntries(tally)
                      ELSE MapEntries(remainingCandidates, tally)
           total == IF impl = "calculateActualVotes"
                    THEN Len(voters) ELSE SumValues(tally)
           leader == IF impl = "calculateActualVotes"
                     THEN Reduce(entries, LastMax)
                     ELSE Reduce(entries, FirstMax)
           loser == IF impl = "comparisonRunElection"
                    THEN Reduce(entries, FirstMin)
                    ELSE Reduce(entries, LastMin)
       IN /\ roundVotes' = tally
          /\ IF HasMajority(leader[2], total)
             THEN /\ majorityWinner' = leader[1]
                  /\ pc' = "break"
                  /\ remainingCandidates' = remainingCandidates
                  /\ votes' = CASE impl = "calculateWinningAreas" ->
                                     [ZeroVotes EXCEPT ![leader[1]] = total]
                                [] impl = "calculateActualVotes" ->
                                     [votes EXCEPT ![leader[1]] = leader[2]]
                                [] OTHER -> tally
             ELSE /\ majorityWinner' = NoId
                  /\ pc' = "loop"
                  /\ remainingCandidates' = Remove(remainingCandidates, loser[1])
                  /\ votes' = IF impl = "comparisonRunElection"
                              THEN tally ELSE votes
    /\ UNCHANGED <<candidates, pointVars, impl, voters, allVotes, winnerId,
                   tallyVars, weightVars, uiVars>>

\* the code after the loop, reached by break or by the loop condition
IrvFinish ==
    /\ \/ pc = "break"
       \/ pc = "loop" /\ Len(remainingCandidates) <= 1
    /\ pc' = "done"
    /\ votes' = IF impl = "comparisonRunElection" THEN votes
                ELSE IF Len(remainingCandidates) = 1
                THEN IF impl = "calculateWinningAreas"
                     THEN [ZeroVotes EXCEPT ![remainingCandidates[1]] =
                                                Len(allVotes)]
                     ELSE [votes EXCEPT ![remainingCandidates[1]] = Len(voters)]
                ELSE votes
    /\ winnerId' = IF DOMAIN votes' = {} THEN NoId
                   ELSE IF impl = "comparisonRunElection"
                   THEN Reduce(ObjectEntries(votes'), FirstMax)[1]
                   ELSE Reduce(ObjectEntries(votes'), LastMax)[1]
    /\ UNCHANGED <<candidates, pointVars, impl, voters, allVotes,
                   remainingCandidates, roundVotes, majorityWinner, rounds,
                   tallyVars, weightVars, uiVars>>

NextIrv == IrvRound \/ IrvFinish

SpecIrv == InitIrv /\ [][NextIrv]_vars

\* ------------------------------------------------- population tallies
\* Three aggregations count one vote result per voter (or sample point):
\*   "simulateElection"       ElectionUtils.ts, Record tally of runElection
\*   "calculateWinningAreas"  VotingMethodViz.tsx, Map tally of votingMethods
\*   "calculateActualVotes"   VotingMethodViz.tsx, Map tally of votingMethods
\* For method 'irv' the two of VotingMethodViz.tsx run the round loop above.
Aggregations == {"simulateElection", "calculateWinningAreas",
                 "calculateActualVotes"}

\* Map.prototype.set, or assignment to a key of a Record: the key is added
\* when it is absent
MapSet(f, k, v) == [x \in (DOMAIN f) \cup {k} |-> IF x = k THEN v ELSE f[x]]

\* variant: every vote is counted twice
AddVotes_Twice(tally, id, k) == MapSet(tally, id, tally[id] + 2 * k)

\* votes.set(id, votes.get(id)! + k); votes[winnerId]++ for k = 1
AddVotes(tally, id, k) == MapSet(tally, id, tally[id] + k)

\* votingMethods[method](voterX, voterY, candidates,
\*                       method === 'approval' ? approvalThreshold : undefined)
VoteResult(m, vx, vy, cands, threshold) ==
    CASE m = "plurality" -> plurality(vx, vy, cands)
      [] m = "approval" -> approval(vx, vy, cands, threshold)
      [] m = "borda" -> borda(vx, vy, cands)
      [] m = "irv" -> irv(vx, vy, cands)
      [] m = "smithApproval" -> smithApproval(vx, vy, cands, Undefined)

\* variant: the candidate ranked at index i receives n - i points
BordaPoints_OneMore(n, index) == n - index

\* candidates.length - 1 - index
BordaPoints(n, index) == n - 1 - index

\* the tally after one vote result of VotingMethodViz.tsx is counted:
\* approval counts every approved id, borda adds points by index, the other
\* methods count voteResult[0]
CountResult(tally, m, voteResult, n) ==
    LET acc[i \in 0..Len(voteResult)] ==
            IF i = 0 THEN tally
            ELSE AddVotes(acc[i - 1], voteResult[i],
                          IF m = "borda" THEN BordaPoints(n, i - 1) ELSE 1)
    IN IF m \in {"approval", "borda"} THEN acc[Len(voteResult)]
       ELSE AddVotes(tally, voteResult[1], 1)

Electorates == {<<>>} \cup Populations

InitTally ==
    /\ candidates \in CandidateLists(LinePositions, MaxCands)
    /\ impl \in Aggregations
    /\ tallyMethod \in IF impl = "simulateElection" THEN RunMethods
                       ELSE VizMethods
    /\ voters \in IF impl = "calculateWinningAreas" THEN Populations
                  ELSE Electorates
    /\ approvalThreshold \in Thresholds
    /\ allVotes = <<>>
    /\ remainingCandidates = <<>>
    /\ roundVotes = <<>>
    /\ majorityWinner = NoId
    /\ rounds = 0
    /\ votes = <<>>
    /\ winnerId = NoId
    /\ pc = "start"
    /\ counted = 0
    /\ weightDist = 0
    /\ weightRadius = 1
    /\ weight = Undefined
    /\ component = "none"
    /\ isDragging = NoId
    /\ voterX = 0
    /\ voterY = 0
    /\ op = Idle
    /\ result = NoResult
    /\ smithSet = <<>>

\* the code before the loop over the voters: the early return of
\* calculateActualVotes, the zeroed tally, and for 'irv' the ballots
TallyStart ==
    /\ pc = "start"
    /\ IF impl = "calculateActualVotes" /\ voters = <<>>
       THEN /\ pc' = "null"
            /\ UNCHANGED <<votes, allVotes, remainingCandidates, roundVotes>>
       ELSE /\ votes' = ZeroVotes
            /\ IF impl # "simulateElection" /\ tallyMethod = "irv"
               THEN /\ pc' = "loop"
                    /\ allVotes' = [v \in 1..Len(voters) |->
                           irv(voters[v][1], voters[v][2], candidates).value]
                    /\ remainingCandidates' = SetOf(Ids(candidates))
                    /\ roundVotes' = ZeroVotes
               ELSE /\ pc' = "count"
                    /\ UNCHANGED <<allVotes, remainingCandidates, roundVotes>>
    /\ UNCHANGED <<candidates, pointVars, impl, voters, majorityWinner, rounds,
                   winnerId, tallyVars, weightVars, uiVars>>

\* one iteration of the loop over the voters
CountVoter ==
    /\ pc = "count"
    /\ counted < Len(voters)
    /\ \E res \in {IF impl = "simulateElection"
                   THEN runElection(tallyMethod, voters[counted + 1][1],
                                    voters[counted + 1][2], candidates,
                                    approvalThreshold)
                   ELSE VoteResult(tallyMethod, voters[counted + 1][1],
                                   voters[counted + 1][2], candidates,
                                   approvalThreshold)} :
          IF res.tag = "throw"
          THEN /\ pc' = "thrown"
               /\ UNCHANGED <<votes, counted>>
          ELSE /\ pc' = "count"
               /\ counted' = counted + 1
               /\ votes' = IF impl = "simulateElection"
                           THEN AddVotes(votes, res.value, 1)
                           ELSE CountResult(votes, tallyMethod, res.value,
                                            Len(candidates))
    /\ candidates' = CandidatesAfter(voters[counted + 1][1],
                                     voters[counted + 1][2], candidates)
    /\ UNCHANGED <<pointVars, impl, voters, allVotes,
                   remainingCandidates, roundVotes, majorityWinner, rounds,
                   winnerId, tallyMethod, weightVars, uiVars>>

\* the tally is returned; the page picks the winner of a VotingMethodViz.tsx
\* tally from its percentages, which are the votes divided by one total
TallyFinish ==
    /\ pc = "count"
    /\ counted = Len(voters)
    /\ pc' = "done"
    /\ winnerId' = IF impl = "simulateElection" \/ DOMAIN votes = {}
                   THEN NoId
                   ELSE Reduce(ObjectEntries(votes), LastMax)[1]
    /\ UNCHANGED <<candidates, pointVars, impl, voters, allVotes,
                   remainingCandidates, roundVotes, majorityWinner, rounds,
                   votes, tallyVars, weightVars, uiVars>>

NextTally == TallyStart \/ CountVoter \/ TallyFinish \/ IrvRound \/ IrvFinish

SpecTally == InitTally /\ [][NextTally]_vars

\* ------------------------------------------------- getWeight on its own
\* The weight is computed at a fixed precision, as the source computes it in
\* doubles: WeightOne steps here, 2^53 there.
InitWeight ==
    /\ weightRadius \in 1..MaxRadius
    /\ weightDist \in 0..(Sq(MaxRadius) + 1)
    /\ weight = Undefined
    /\ component = "none"
    /\ isDragging = NoId
    /\ candidates = <<>>
    /\ voterX = 0
    /\ voterY = 0
    /\ approvalThreshold = DEFAULT_APPROVAL_THRESHOLD
    /\ op = Idle
    /\ result = NoResult
    /\ smithSet = <<>>
    /\ impl = "none"
    /\ voters = <<>>
    /\ allVotes = <<>>
    /\ remainingCandidates = <<>>
    /\ roundVotes = <<>>
    /\ majorityWinner = NoId
    /\ rounds = 0
    /\ votes = <<>>
    /\ winnerId = NoId
    /\ pc = "single"
    /\ tallyMethod = "none"
    /\ counted = 0

CallGetWeight ==
    /\ weight = Undefined
    /\ weight' = getWeight(weightDist, weightRadius)
    /\ UNCHANGED <<candidates, pointVars, irvVars, tallyVars, weightDist,
                   weightRadius, uiVars>>

NextWeight == CallGetWeight

SpecWeight == InitWeight /\ [][NextWeight]_vars

\* --------------------------------------------------- candidate editors
\* The candidate list of a component (VotingMethodViz.tsx and the second
\* VotingMethodComparisonGrid of VotingMethodComparisonGrid.tsx) and the
\* handlers that edit it.  UI coordinates are in tenths of the canvas side:
\* 0.3 is 3 and the canvas is 0..CoordOne.  A candidate is a record
\* [id, x, y, color, name].
CoordOne == 10

Components == {"VotingMethodViz", "VotingMethodComparisonGrid"}

availableColors ==
    <<"#22c55e", "#ef4444", "#3b82f6", "#f59e0b", "#8b5cf6",
      "#ec4899", "#10b981", "#6366f1", "#f97316", "#06b6d4">>

\* String.fromCharCode(65 + n)
fromCharCode65(n) ==
    <<"A", "B", "C", "D", "E", "F", "G", "H", "I", "J", "K">>[n + 1]

\* `Candidate ${letter}` in VotingMethodViz, letter in the grid
CandidateName(comp, letter) ==
    IF comp = "VotingMethodViz" THEN "Candidate " \o letter ELSE letter

Cand(id, x, y, color, name) ==
    [id |-> id, x |-> x, y |-> y, color |-> color, name |-> name]

InitialCandidates(comp) ==
    <<Cand(1, 3, 7, "#22c55e", CandidateName(comp, "A")),
      Cand(2, 5, 5, "#ef4444", CandidateName(comp, "B")),
      Cand(3, 7, 3, "#3b82f6", CandidateName(comp, "C"))>>

presets ==
    [spoiler |-> <<Cand(1, 3, 5, "#22c55e", "Progressive A"),
                   Cand(2, 7, 5, "#3b82f6", "Conservative"),
                   Cand(3, 4, 5, "#ef4444", "Progressive B")>>,
     default |-> <<Cand(1, 3, 7, "#22c55e", "A"),
                   Cand(2, 5, 5, "#ef4444", "B"),
                   Cand(3, 7, 3, "#3b82f6", "C")>>]

\* Math.max(0, Math.min(1, v))
Clamp_None(v) == v

Clamp(v) == IF v > CoordOne THEN CoordOne ELSE IF v < 0 THEN 0 ELSE v

\* Math.max(0, ...candidates.map(c => parseInt(c.id))) + 1
NewId(cands) ==
    LET ids == Range(Ids(cands)) \cup {0}
    IN (CHOOSE m \in ids : \A o \in ids : o <= m) + 1

\* variant: the new id is the new length of the list
addCandidate_LengthId(comp, cands) ==
    IF Len(cands) >= Len(availableColors) THEN cands
    ELSE Append(cands, Cand(Len(cands) + 1, 5, 5,
                            availableColors[Len(cands) + 1],
                            CandidateName(comp, fromCharCode65(Len(cands)))))

addCandidate(comp, cands) ==
    IF Len(cands) >= Len(availableColors) THEN cands
    ELSE Append(cands, Cand(NewId(cands), 5, 5,
                            availableColors[Len(cands) + 1],
                            CandidateName(comp, fromCharCode65(Len(cands)))))

\* variant: no minimum of two candidates
removeCandidate_NoMinimum(cands, id) ==
    LET Other(c) == c.id # id IN SelectSeq(cands, Other)

removeCandidate(cands, id) ==
    LET Other(c) == c.id # id
    IN IF Len(cands) <= 2 THEN cands ELSE SelectSeq(cands, Other)

updateCandidateName(cands, id, name) ==
    [i \in 1..Len(cands) |->
       IF cands[i].id = id THEN [cands[i] EXCEPT !.name = name] ELSE cands[i]]

\* candidates.map(c => c.id === id ? { ...c, x, y } : c), x and y clamped
updateCandidatePosition(cands, id, newX, newY) ==
    [i \in 1..Len(cands) |->
       IF cands[i].id = id
       THEN [cands[i] EXCEPT !.x = Clamp(newX), !.y = Clamp(newY)]
       ELSE cands[i]]

\* what parseFloat makes of the typed text: NaN or a number
NaN == [nan |-> TRUE, num |-> 0]
Num(v) == [nan |-> FALSE, num |-> v]

handleCoordinateInput(cands, id, coord, numValue) ==
    LET found == {i \in 1..Len(cands) : cands[i].id = id}
        candidate == cands[CHOOSE i \in found : \A o \in found : i <= o]
    IN IF numValue.nan \/ found = {} THEN cands
       ELSE updateCandidatePosition(
                cands, id,
                IF coord = "x" THEN numValue.num ELSE candidate.x,
                IF coord = "y" THEN numValue.num ELSE candidate.y)

\* the click detection radius in twentieths: 0.1 in VotingMethodViz, 0.05
\* in the grid
ClickRadius(comp) == IF comp = "VotingMethodViz" THEN 2 ELSE 1

\* candidates.find(c => distance(x, y, c.x, c.y) < radius)?.id, NoId when
\* there is none (distance is carried as its square, in tenths)
clickedCandidate(comp, cands, x, y) ==
    LET hit == {i \in 1..Len(cands) :
                  4 * distance(x, y, cands[i].x, cands[i].y)
                     < Sq(ClickRadius(comp))}
    IN IF hit = {} THEN NoId
       ELSE cands[CHOOSE i \in hit : \A o \in hit : i <= o].id

\* ------------------------------------------ editor specifications
\* the engine variables play no part in an editing session
EngineIdle ==
    /\ voterX = 0
    /\ voterY = 0
    /\ approvalThreshold = DEFAULT_APPROVAL_THRESHOLD
    /\ op = Idle
    /\ result = NoResult
    /\ smithSet = <<>>
    /\ impl = "none"
    /\ voters = <<>>
    /\ allVotes = <<>>
    /\ remainingCandidates = <<>>
    /\ roundVotes = <<>>
    /\ majorityWinner = NoId
    /\ rounds = 0
    /\ votes = <<>>
    /\ winnerId = NoId
    /\ pc = "edit"
    /\ tallyMethod = "none"
    /\ counted = 0
    /\ weightDist = 0
    /\ weightRadius = 1
    /\ weight = Undefined

EngineVars == <<pointVars, irvVars, tallyVars, weightVars>>

\* a click on "Add Candidate"; the ids a session creates are capped at maxId
AddCandidate(maxId) ==
    /\ pc = "edit"
    /\ \E added \in {addCandidate(component, candidates)} :
          /\ \A i \in 1..Len(added) : added[i].id <= maxId
          /\ candidates' = added
    /\ UNCHANGED <<EngineVars, uiVars>>

\* a click on the remove button of a listed candidate
RemoveCandidate ==
    /\ pc = "edit"
    /\ \E id \in Range(Ids(candidates)) :
          candidates' = removeCandidate(candidates, id)
    /\ UNCHANGED <<EngineVars, uiVars>>

NewNames == {"X"}

\* typing in the name field of a listed candidate (VotingMethodViz)
RenameCandidate ==
    /\ pc = "edit"
    /\ component = "VotingMethodViz"
    /\ \E id \in Range(Ids(candidates)), name \in NewNames :
          candidates' = updateCandidateName(candidates, id, name)
    /\ UNCHANGED <<EngineVars, uiVars>>

\* a click on a preset button (the grid)
LoadPreset ==
    /\ pc = "edit"
    /\ component = "VotingMethodComparisonGrid"
    /\ \E presetName \in DOMAIN presets : candidates' = presets[presetName]
    /\ UNCHANGED <<EngineVars, uiVars>>

\* typing in a coordinate field of a listed candidate (VotingMethodViz)
CoordinateInput(typed) ==
    /\ pc = "edit"
    /\ component = "VotingMethodViz"
    /\ \E id \in Range(Ids(candidates)), coord \in {"x", "y"},
          numValue \in typed :
          candidates' = handleCoordinateInput(candidates, id, coord, numValue)
    /\ UNCHANGED <<EngineVars, uiVars>>

\* mouse down on the canvas, on a candidate or at one of the given points
\* (the grid's handlers return at once while isComputing: no change)
MouseDown(points) ==
    /\ pc = "edit"
    /\ \E p \in points \cup {<<candidates[i].x, candidates[i].y>> :
                               i \in 1..Len(candidates)} :
          LET clicked == clickedCandidate(component, candidates, p[1], p[2])
          IN isDragging' = IF clicked # NoId THEN clicked ELSE isDragging
    /\ UNCHANGED <<candidates, EngineVars, component>>

\* mouse move, the pointer at one of the given points
MouseMove(points) ==
    /\ pc = "edit"
    /\ \E p \in points :
          candidates' =
             IF isDragging = NoId THEN candidates
             ELSE [i \in 1..Len(candidates) |->
                     IF candidates[i].id = isDragging
                     THEN [candidates[i] EXCEPT !.x = Clamp(p[1]),
                                                !.y = Clamp(p[2])]
                     ELSE candidates[i]]
    /\ UNCHANGED <<EngineVars, uiVars>>

\* mouse up, or the pointer leaving the canvas
MouseUp ==
    /\ pc = "edit"
    /\ isDragging' = NoId
    /\ UNCHANGED <<candidates, EngineVars, component>>

\* a session starts from the component's initial candidates, nothing dragged
InitEdit ==
    /\ component \in Components
    /\ candidates = InitialCandidates(component)
    /\ isDragging = NoId
    /\ EngineIdle

\* --- editing sessions: every operation on the list, ids up to MaxUiId
EditPoints == {<<0 - MaxOutside, CoordOne + MaxOutside>>}

NextEdit ==
    \/ AddCandidate(MaxUiId)
    \/ RemoveCandidate
    \/ RenameCandidate
    \/ LoadPreset
    \/ MouseDown(EditPoints)
    \/ MouseMove(EditPoints)
    \/ MouseUp

SpecEdit == InitEdit /\ [][NextEdit]_vars

\* --- positioning sessions: dragging and typed coordinates on the initial
\* list, the pointer and the typed values inside and outside of the canvas
PointerCoords == {0 - MaxOutside, 5, CoordOne + MaxOutside}

DragPoints == PointerCoords \X PointerCoords

TypedValues == {NaN} \cup {Num(v) : v \in PointerCoords}

NextDrag ==
    \/ MouseDown(DragPoints)
    \/ MouseMove(DragPoints)
    \/ MouseUp
    \/ CoordinateInput(TypedValues)

SpecDrag == InitEdit /\ [][NextDrag]_vars

\* --- palette sessions: adding and removing, ids up to MaxPaletteId
NextPalette == AddCandidate(MaxPaletteId) \/ RemoveCandidate

SpecPalette == InitEdit /\ [][NextPalette]_vars

\* ------------------------------------------------- properties, Spec
VM(f) == <<"votingMethods", f>>
RE(m) == <<"runElection", m>>

MethodCalls ==
    {VM("plurality"), VM("approval"), VM("borda"), VM("irv"),
     VM("smithApproval"), RE("plurality"), RE("approval"), RE("irv")}

Returned == result.tag = "return"

\* the id a finished call names: runElection returns an id, votingMethods.*
\* a sequence of ids
Winner == IF op[1] = "runElection" THEN result.value ELSE result.value[1]

DistTo(i) == distance(voterX, voterY, candidates[i].x, candidates[i].y)

Nearest == {i \in 1..Len(candidates) :
              \A j \in 1..Len(candidates) : DistTo(i) <= DistTo(j)}

FirstNearest == CHOOSE i \in Nearest : \A j \in Nearest : i <= j

NoneWithin(threshold) ==
    \A i \in 1..Len(candidates) : DistTo(i) > Sq(threshold)

\* C1: for an empty candidate list every one of the five voting methods and
\* runElection (each method) fails with an error; none returns a value.
C1_EmptyListFails ==
    (candidates = <<>> /\ op \in MethodCalls) => result.tag = "throw"

\* C2: a plurality vote (votingMethods.plurality(...)[0] and
\* runElection('plurality', ...)) returns a candidate whose distance to the
\* voter is minimal over the whole list, also when the voter is far from all.
C2_PluralityNearest ==
    (op \in {VM("plurality"), RE("plurality")} /\ Returned)
        => \E i \in Nearest : candidates[i].id = Winner

\* C3: when two or more candidates are at the same minimal distance,
\* plurality returns the one that comes first in the input order.
C3_PluralityTieFirst ==
    (/\ op \in {VM("plurality"), RE("plurality")}
     /\ Returned
     /\ Cardinality(Nearest) >= 2)
        => Winner = candidates[FirstNearest].id

\* C4: when no candidate lies within approvalThreshold, approval returns
\* exactly the closest candidate (votingMethods.approval: the one-element
\* sequence of it; runElection('approval'): its id), never an empty result.
C4_ApprovalFallback ==
    (/\ op \in {VM("approval"), RE("approval")}
     /\ candidates # <<>>
     /\ NoneWithin(approvalThreshold))
        => /\ Returned
           /\ \E i \in Nearest : candidates[i].id = Winner
           /\ op = VM("approval") => Len(result.value) = 1

\* a step of the round loop: one more iteration has been executed
IrvRoundStep == pc = "loop" /\ rounds' = rounds + 1

\* C5: each round of population IRV that declares no majority winner removes
\* exactly one candidate from the remaining set, one that was remaining at
\* the start of the round; a candidate eliminated earlier receives no vote
\* in the round and does not re-enter the remaining set.
C5_IrvElimination ==
    [][(IrvRoundStep /\ majorityWinner' = NoId)
         => /\ Len(remainingCandidates') = Len(remainingCandidates) - 1
            /\ Range(remainingCandidates') \subseteq Range(remainingCandidates)
            /\ \A id \in DOMAIN roundVotes' :
                  id \notin Range(remainingCandidates) => roundVotes'[id] = 0
      ]_vars

\* C6: population IRV terminates for every candidate list of size n >= 1:
\* the round loop runs at most n-1 times and ends with a majority winner or
\* with exactly one candidate remaining.
C6_IrvTerminates ==
    /\ rounds <= Len(candidates) - 1
    /\ pc = "done" => (majorityWinner # NoId \/ Len(remainingCandidates) = 1)

\* C7: in a round a candidate is declared winner, and the rounds stop, if
\* and only if its tally is strictly greater than half of the votes counted
\* in that round; exactly half does not win the round.
C7_IrvStrictMajority ==
    [][IrvRoundStep
         => LET total == SumValues(roundVotes')
            IN /\ (majorityWinner' # NoId)
                     <=> (\E id \in DOMAIN roundVotes' :
                             2 * roundVotes'[id] > total)
               /\ majorityWinner' # NoId
                     => /\ 2 * roundVotes'[majorityWinner'] > total
                        /\ pc' = "break"
               /\ majorityWinner' = NoId => pc' = "loop"
      ]_vars

\* C7 witness: a counted round in which a candidate holds exactly half of
\* the votes and no winner was declared
C7_Witness ==
    /\ rounds >= 1
    /\ pc = "loop"
    /\ majorityWinner = NoId
    /\ \E id \in DOMAIN roundVotes :
          /\ roundVotes[id] > 0
          /\ 2 * roundVotes[id] = SumValues(roundVotes)

\* C8: for a non-empty list with unique ids findSmithSet returns a
\* non-empty set that contains the voter's first-ranked candidate, and no
\* candidate outside the set defeats every candidate inside it.
C8_SmithSet ==
    (op = VM("smithApproval") /\ candidates # <<>>)
        => LET n == Len(candidates)
               inside == {i \in 1..n : candidates[i].id \in Range(smithSet)}
               \* i defeats j: i is nearer, or as near and earlier in the list
               Beats(i, j) == \/ DistTo(i) < DistTo(j)
                              \/ DistTo(i) = DistTo(j) /\ i < j
           IN /\ smithSet # <<>>
              /\ Range(smithSet) \subseteq Range(Ids(candidates))
              /\ FirstNearest \in inside
              /\ \A o \in (1..n) \ inside : \E c \in inside : ~Beats(o, c)

\* C8 witness: a Smith set computed over several candidates, some removed
C8_Witness ==
    /\ op = VM("smithApproval")
    /\ Len(candidates) >= 2
    /\ Len(smithSet) >= 1
    /\ Len(smithSet) < Len(candidates)

\* C9: getVoterPreference returns a permutation of the input candidates, in
\* non-decreasing order of distance, equal distances in input order.
C9_RankingStable ==
    (op = VM("getVoterPreference"))
        => LET prefs == result.value
               n == Len(candidates)
               At(id) == CHOOSE i \in 1..n : candidates[i].id = id
           IN /\ Len(prefs) = n
              /\ \A i \in 1..n :
                    Cardinality({k \in 1..n : prefs[k].id = candidates[i].id}) = 1
              /\ \A k \in 1..n : prefs[k].dist = DistTo(At(prefs[k].id))
              /\ \A k \in 1..(n - 1) :
                    \/ prefs[k].dist < prefs[k + 1].dist
                    \/ /\ prefs[k].dist = prefs[k + 1].dist
                       /\ At(prefs[k].id) < At(prefs[k + 1].id)

\* C9 witness: a ranking of two candidates at distinct positions and equal
\* distance, the first of them with the greater id
C9_Witness ==
    /\ op = VM("getVoterPreference")
    /\ Len(candidates) = 2
    /\ candidates[1].x # candidates[2].x
    /\ DistTo(1) = DistTo(2)
    /\ candidates[1].id > candidates[2].id
    /\ Ids(result.value) = <<candidates[1].id, candidates[2].id>>

\* C10: for a one-element list [X] every method returns X (runElection) or
\* a sequence whose only element is X (votingMethods.*), without raising.
C10_SingleCandidate ==
    (op \in MethodCalls /\ Len(candidates) = 1)
        => /\ Returned
           /\ IF op[1] = "runElection"
              THEN result.value = candidates[1].id
              ELSE result.value = <<candidates[1].id>>

\* C10 witness: the approval fallback on a single candidate out of reach
C10_Witness ==
    /\ op \in {VM("approval"), VM("smithApproval")}
    /\ Len(candidates) = 1
    /\ NoneWithin(approvalThreshold)
    /\ result = Ret(<<candidates[1].id>>)

\* C12: votingMethods.irv and votingMethods.borda return every candidate id
\* exactly once, nearest first: the id sequence of getVoterPreference for the
\* same voter and candidates.
C12_FullRanking ==
    (op \in {VM("borda"), VM("irv")})
        => LET n == Len(candidates)
               At(id) == CHOOSE i \in 1..n : candidates[i].id = id
           IN /\ Returned
              /\ result.value = Ids(getVoterPreference(voterX, voterY, candidates))
              /\ Len(result.value) = n
              /\ \A i \in 1..n :
                    Cardinality({k \in 1..n :
                                   result.value[k] = candidates[i].id}) = 1
              /\ \A k \in 1..(n - 1) :
                    DistTo(At(result.value[k])) <= DistTo(At(result.value[k + 1]))

\* C12 witness: a Borda ballot over two candidates, the nearer one listed
\* second
C12_Witness ==
    /\ op = VM("borda")
    /\ Len(candidates) = 2
    /\ DistTo(2) < DistTo(1)
    /\ result = Ret(<<candidates[2].id, candidates[1].id>>)

\* C13: when some candidate is within approvalThreshold of the voter,
\* votingMethods.approval returns exactly the candidates at distance <=
\* approvalThreshold, equality included, and none farther.
C13_ApprovalWithin ==
    (op = VM("approval") /\ ~NoneWithin(approvalThreshold))
        => LET within == {i \in 1..Len(candidates) :
                            DistTo(i) <= Sq(approvalThreshold)}
           IN /\ Returned
              /\ Range(result.value) = {candidates[i].id : i \in within}
              /\ Len(result.value) = Cardinality(within)

\* C13 witness: one candidate nearer than the threshold, one exactly at it,
\* both approved
C13_Witness ==
    /\ op = VM("approval")
    /\ Len(candidates) = 2
    /\ DistTo(1) < Sq(approvalThreshold)
    /\ DistTo(2) = Sq(approvalThreshold)
    /\ Returned
    /\ Len(result.value) = 2

\* ------------------------------------------- properties, SpecTally
\* a step of the loop over the voters: one more vote result is counted
TallyStep == pc = "count" /\ counted' = counted + 1

\* C11: Borda gives the candidate at 0-indexed rank position i of the
\* voter's ranking n-1-i points, so one voter's points sum to n(n-1)/2 and
\* the tally over V voters sums to V*n(n-1)/2.
C11_BordaPoints ==
    [][(TallyStep /\ tallyMethod = "borda")
         => LET n == Len(candidates)
                v == voters[counted']
                D(i) == distance(v[1], v[2], candidates[i].x, candidates[i].y)
                RankOf(i) == Cardinality({j \in 1..n :
                                 D(j) < D(i) \/ (D(j) = D(i) /\ j < i)})
            IN /\ \A i \in 1..n :
                     votes'[candidates[i].id] - votes[candidates[i].id]
                         = n - 1 - RankOf(i)
               /\ SumValues(votes') - SumValues(votes) = (n * (n - 1)) \div 2
               /\ SumValues(votes') = counted' * ((n * (n - 1)) \div 2)
      ]_vars

\* C11 witness: a finished Borda tally of two voters over two candidates
C11_Witness ==
    /\ pc = "done"
    /\ tallyMethod = "borda"
    /\ Len(candidates) = 2
    /\ Len(voters) = 2
    /\ SumValues(votes) = 2

\* C14: every tally an aggregation produces (simulateElection,
\* calculateWinningAreas, calculateActualVotes, IRV after its final round
\* included) has an entry for every candidate of the input list, 0 for a
\* candidate without votes, also for an empty voter list.
C14_TallyComplete ==
    (pc \in {"count", "loop", "break", "done"})
        => /\ DOMAIN votes = Range(Ids(candidates))
           /\ \A id \in DOMAIN votes : votes[id] \in Nat
           /\ (voters = <<>> \/ (pc = "count" /\ counted = 0)) =>
                 \A id \in DOMAIN votes : votes[id] = 0

\* C14 witness: a finished tally in which one candidate has votes and
\* another has none
C14_Witness ==
    /\ pc = "done"
    /\ voters # <<>>
    /\ \E id \in DOMAIN votes : votes[id] = 0
    /\ \E id \in DOMAIN votes : votes[id] > 0

\* C15: simulateElection adds exactly one vote per voter, to the candidate
\* runElection returns for that voter; for a non-empty candidate list the
\* tallies are non-negative integers that sum to the number of voters.
C15_OneVotePerVoter ==
    [][(impl = "simulateElection" /\ pc = "count" /\ candidates # <<>>)
         => /\ pc' # "thrown"
            /\ TallyStep =>
                  LET v == voters[counted']
                      w == runElection(tallyMethod, v[1], v[2], candidates,
                                       approvalThreshold).value
                  IN /\ w \in DOMAIN votes
                     /\ votes' = [votes EXCEPT ![w] = @ + 1]
            /\ pc' = "done" =>
                  /\ \A id \in DOMAIN votes' : votes'[id] \in Nat
                  /\ SumValues(votes') = Len(voters)
      ]_vars

\* C15 witness: a finished simulateElection of two voters who voted for
\* different candidates
C15_Witness ==
    /\ impl = "simulateElection"
    /\ pc = "done"
    /\ Len(voters) = 2
    /\ Cardinality({id \in DOMAIN votes : votes[id] = 1}) = 2

\* ------------------------------------------- properties, winner picking
\* C16: a winner picked from per-candidate weights or from a tally has the
\* maximal value, and among several candidates with the maximal value (all
\* values 0 included) it is the first in iteration (input) order.  Stated
\* for the weights of runElection('plurality').
C16_WinnerFirstMax ==
    (op = RE("plurality") /\ Len(candidates) >= 2)
        => LET n == Len(candidates)
               W(i) == getWeight(DistTo(i), VOTER_RADIUS)
               best == {i \in 1..n : \A j \in 1..n : W(i) >= W(j)}
               first == CHOOSE i \in best : \A j \in best : i <= j
           IN /\ Returned
              /\ result.value = candidates[first].id

\* C20: in a population IRV round without a majority winner the eliminated
\* candidate is a remaining candidate with the minimal tally of the round,
\* and among several such candidates the first in candidate input order.
C20_IrvLoserFirstMin ==
    [][(IrvRoundStep /\ majorityWinner' = NoId)
         => LET n == Len(candidates)
                rem == {i \in 1..n :
                          candidates[i].id \in Range(remainingCandidates)}
                Tally(i) == roundVotes'[candidates[i].id]
                minimal == {i \in rem : \A j \in rem : Tally(i) <= Tally(j)}
                first == CHOOSE i \in minimal : \A j \in minimal : i <= j
            IN Range(remainingCandidates) \ Range(remainingCandidates')
                   = {candidates[first].id}
      ]_vars

C18_NoErrorOnDegenerate ==
    (op \in MethodCalls /\ candidates # <<>>) => Returned

\* C18 witness: a Smith-approval call for two candidates at one position, the
\* voter on them, on the boundary coordinate 0
C18_Witness ==
    /\ op = VM("smithApproval")
    /\ Len(candidates) = 2
    /\ candidates[1].x = candidates[2].x
    /\ candidates[1].y = candidates[2].y
    /\ voterX = 0
    /\ voterY = 0
    /\ DistTo(1) = 0
    /\ Returned

\* ------------------------------------------- properties, SpecWeight
\* C19: getWeight(dist, radius) for radius > 0 is 0 whenever dist >= radius,
\* is 1 at dist = 0, lies in [0, 1], and is strictly positive and
\* non-increasing in dist on 0 <= dist < radius.
C19_WeightShape ==
    (weight # Undefined)
        => /\ weightDist >= Sq(weightRadius) => weight = 0
           /\ weightDist = 0 => weight = WeightOne
           /\ 0 <= weight /\ weight <= WeightOne
           /\ weightDist < Sq(weightRadius) => weight > 0
           /\ \A d \in 0..weightDist :
                 getWeight(d, weightRadius) >= weight

\* ------------------------------------------- properties, approval within
\* C21: when at least one candidate lies at distance <= approvalThreshold,
\* runElection('approval') returns the nearest of the candidates within the
\* threshold, a candidate at distance exactly equal to the threshold
\* included, and never a candidate farther than the threshold.
C21_ApprovalNearestWithin ==
    (/\ op = RE("approval")
     /\ \E i \in 1..Len(candidates) : DistTo(i) <= Sq(approvalThreshold))
        => /\ Returned
           /\ \E i \in Nearest : candidates[i].id = Winner

\* ------------------------------------------- properties, thresholds
\* C23: approval results grow with the threshold: for thresholds t1 <= t2
\* and the same voter and candidates, votingMethods.approval and
\* smithApproval return with t1 at most as many ids as with t2.
C23_ApprovalMonotone ==
    (op \in {VM("approval"), VM("smithApproval")} /\ Returned)
        => \A t \in Thresholds :
              t <= approvalThreshold
                 => LET lower == IF op = VM("approval")
                                 THEN approval(voterX, voterY, candidates, t)
                                 ELSE smithApproval(voterX, voterY,
                                                    candidates, t)
                    IN /\ lower.tag = "return"
                       /\ Len(lower.value) <= Len(result.value)

\* C23 witness: an approval call returned two ids where a smaller threshold
\* yields one
C23_Witness ==
    /\ op = VM("approval")
    /\ Returned
    /\ Len(result.value) = 2
    /\ \E t \in Thresholds :
          /\ t < approvalThreshold
          /\ Len(approval(voterX, voterY, candidates, t).value) = 1

C28_MapColourNearest ==
    (op[1] = "drawVisualization")
        => \A first \in {plurality(voterX, voterY, candidates)} :
              IF first.tag = "return"
              THEN /\ result = Ret(first.value[1])
                   /\ result.value = candidates[FirstNearest].id
                   /\ result = drawVisualization("plurality", voterX, voterY,
                                                 candidates, approvalThreshold)
              ELSE result.tag = "throw"

\* C28 witness: the Borda branch painted a position for two candidates at
\* different distances, the nearer one second in the list, none of them
\* within the threshold
C28_Witness ==
    /\ op = <<"drawVisualization", "borda">>
    /\ Len(candidates) = 2
    /\ DistTo(2) < DistTo(1)
    /\ NoneWithin(approvalThreshold)
    /\ result = Ret(candidates[2].id)

\* ------------------------------------------- properties, IRV ballots
\* C22: in every population IRV round every ballot counts for exactly one
\* remaining candidate (no ballot is exhausted), so the round total equals
\* the number of ballots, and the majority test against half of the round
\* total (calculateWinningAreas) decides the same as the test against half
\* of the number of voters (calculateActualVotes).
C22_NoExhaustedBallot ==
    [][IrvRoundStep
         => /\ \A v \in 1..Len(allVotes) :
                  /\ FirstChoice(allVotes[v], remainingCandidates)
                        \in Range(remainingCandidates)
                  /\ Cardinality({k \in 1..Len(allVotes[v]) :
                                    allVotes[v][k] =
                                       FirstChoice(allVotes[v],
                                                   remainingCandidates)}) = 1
            /\ SumValues(roundVotes') = Len(allVotes)
            /\ \A id \in Range(remainingCandidates) :
                  (2 * roundVotes'[id] > SumValues(roundVotes'))
                     <=> (2 * roundVotes'[id] > Len(voters))
            /\ (majorityWinner' # NoId)
                  <=> \E id \in Range(remainingCandidates) :
                         2 * roundVotes'[id] > Len(voters)
      ]_vars

\* C22 witness: a second round of calculateWinningAreas counted every ballot
\* although the top choice of one of them had been eliminated
C22_Witness ==
    /\ impl = "calculateWinningAreas"
    /\ rounds = 2
    /\ SumValues(roundVotes) = Len(allVotes)
    /\ \E v \in 1..Len(allVotes) : allVotes[v][1] \notin DOMAIN roundVotes

C24_UniqueIds ==
    (pc = "edit")
        => /\ candidates # <<>>
           /\ \A i, j \in 1..Len(candidates) :
                 candidates[i].id = candidates[j].id => i = j

\* C24 witness: a candidate was removed and one added again (it sits at the
\* centre with the highest id), one was renamed and one dragged to the edge
C24_Witness ==
    /\ pc = "edit"
    /\ Len(candidates) = 3
    /\ candidates[3].id = NewId(SubSeq(candidates, 1, 2))
    /\ candidates[3].x = 5
    /\ candidates[3].y = 5
    /\ \E i \in 1..2 : candidates[i].name \in NewNames
    /\ \E i \in 1..2 : candidates[i].y = CoordOne

\* C25: after any sequence of mouse-drag events and coordinate inputs, the
\* pointer outside of the canvas and typed values below 0 or above 1
\* included, every candidate's x and y stay in [0, 1], and only the dragged
\* or edited candidate's position changes: a step moves at most one
\* candidate, along both axes only the dragged one, and alters nothing else.
C25_PositionsClamped ==
    [][(pc = "edit")
         => LET n == Len(candidates)
                Moved(i) == \/ candidates'[i].x # candidates[i].x
                            \/ candidates'[i].y # candidates[i].y
                MovedBoth(i) == /\ candidates'[i].x # candidates[i].x
                                /\ candidates'[i].y # candidates[i].y
            IN /\ Len(candidates') = n
               /\ \A i \in 1..n :
                     /\ 0 <= candidates'[i].x /\ candidates'[i].x <= CoordOne
                     /\ 0 <= candidates'[i].y /\ candidates'[i].y <= CoordOne
                     /\ candidates'[i].id = candidates[i].id
                     /\ candidates'[i].color = candidates[i].color
                     /\ candidates'[i].name = candidates[i].name
                     /\ MovedBoth(i) => candidates[i].id = isDragging
               /\ Cardinality({i \in 1..n : Moved(i)}) <= 1
      ]_vars

\* C25 witness: the second candidate is being dragged and sits in a corner of
\* the canvas, the first one has a typed coordinate clamped to the edge, the
\* third one is where it started
C25_Witness ==
    /\ pc = "edit"
    /\ component = "VotingMethodViz"
    /\ isDragging = candidates[2].id
    /\ candidates[2].x = 0
    /\ candidates[2].y = CoordOne
    /\ candidates[1].x = CoordOne
    /\ candidates[1].y = InitialCandidates(component)[1].y
    /\ candidates[3] = InitialCandidates(component)[3]

\* C29: after any sequence of add and remove operations no two candidates
\* in the list have the same colour.
C29_UniqueColours ==
    (pc = "edit")
        => \A i, j \in 1..Len(candidates) :
              candidates[i].color = candidates[j].color => i = j

\* C30: after any sequence of add and remove operations starting from three
\* candidates the number of candidates stays between 2 and 10: removing is
\* a no-op at 2 candidates and adding is a no-op at 10.
C30_CountInRange ==
    (pc = "edit")
        => /\ 2 <= Len(candidates)
           /\ Len(candidates) <= 10
           /\ Len(candidates) = 2
                 => \A id \in Range(Ids(candidates)) :
                       removeCandidate(candidates, id) = candidates
           /\ Len(candidates) = 10
                 => addCandidate(component, candidates) = candidates

\* C30 witness: ten candidates are listed
C30_Witness ==
    /\ pc = "edit"
    /\ Len(candidates) = 10
    /\ addCandidate(component, candidates) = candidates

=============================================================================
